---- MODULE Spec2Model ----
(***************************************************************************)
(* Model of GenericDataExtractor (src/utils/data_extractor.py): the token  *)
(* chunker chunk_text and the per-document orchestrator process_file with  *)
(* its model-call step extract_structured.                                 *)
(*                                                                         *)
(* A text is represented by its token sequence <<1, ..., T>> (every token  *)
(* is its own position, so coverage of the stream can be observed) and by  *)
(* its number of non-space characters.   A structured value (the dict      *)
(* returned by model_dump) is the sequence of its string fields, each a    *)
(* sequence of character codes.  A message is the sequence of fragments    *)
(* an f-string puts together.                                              *)
(***************************************************************************)
EXTENDS Integers, Sequences, FiniteSets, TLC

VARIABLES max_tokens, token_overlap, pc, text, total_tokens, tokens,
          start_idx, chunks, idx, accumulated, call, num_calls, cause,
          last, result,
          docs,      \* the process_file invocations running on one extractor
          startup,   \* lifespan startup and the schema it compiles
          san,       \* a value passed through sanitize_data
          pdf,       \* one run of _extract_from_pdf
          docx,      \* one run of _extract_from_docx
          lookup,    \* one search for the schema file
          service    \* the API: tracker table, uploads, background tasks

\* the state of one process_file run and of the extractor's configuration
fileVars == <<pc, text, total_tokens, tokens, start_idx, chunks, idx,
              accumulated, call, num_calls, cause, last, result>>
configVars == <<max_tokens, token_overlap>>

\* the state of the other components
otherVars == <<docs, startup, san, pdf, docx, lookup, service>>

vars == <<max_tokens, token_overlap, pc, text, total_tokens, tokens,
          start_idx, chunks, idx, accumulated, call, num_calls, cause,
          last, result, docs, startup, san, pdf, docx, lookup, service>>

\* ---------------------------------------------------------------- bounds
MaxT == 4
MaxMaxTokens == 3
MaxOverlap == 3
MaxChunks == MaxT + 1

Min(a, b) == IF a <= b THEN a ELSE b
Max(a, b) == IF a >= b THEN a ELSE b

\* ------------------------------------------------------- optional values
\* Python's None and a present value
None == [none |-> TRUE, val |-> << >>]
Some(d) == [none |-> FALSE, val |-> d]

\* truth value of `if x:` for x being None or a dict
Truthy(x) == (~x.none) /\ Len(x.val) > 0

\* ------------------------------------------------------------- messages
Lit(s) == [k |-> "lit", s |-> s, n |-> 0]
Num(i) == [k |-> "num", s |-> "", n |-> i]

\* ----------------------------------------------------------- sanitizing
\* mutation: the whole C0 range and DEL, tab, newline and CR included
ControlChars_allC0 == (0..31) \cup {127}

\* characters removed by sanitize_data: NUL, 0x01-0x08, 0x0B, 0x0C,
\* 0x0E-0x1F, 0x7F
ControlChars == {0} \cup (1..8) \cup {11, 12} \cup (14..31) \cup {127}

\* mutation: replace(..., 1) and re.sub(..., count=1): only the first
\* character of the class is removed
SanitizeStr_firstOnly(s) ==
  LET bad == {i \in DOMAIN s : s[i] \in ControlChars}
  IN IF bad = {} THEN s
     ELSE LET i == CHOOSE j \in bad : \A k \in bad : j <= k
          IN SubSeq(s, 1, i - 1) \o SubSeq(s, i + 1, Len(s))

\* data.replace('\x00', '') then re.sub(r'[\x01-\x08\x0B\x0C\x0E-\x1F\x7F]', '', ...)
RECURSIVE SanitizeStr(_)
SanitizeStr(s) ==
  IF s = << >> THEN << >>
  ELSE IF Head(s) \in ControlChars THEN SanitizeStr(Tail(s))
       ELSE <<Head(s)>> \o SanitizeStr(Tail(s))

\* mutation: the parsed value is passed on as it is
sanitize_data_asIs(d) == d

\* sanitize_data on a dict: every value sanitized, keys kept
sanitize_data(d) == [i \in DOMAIN d |-> SanitizeStr(d[i])]

\* ------------------------------------------------------------- chunking
\* Python list slice s[a:b] (step 1), negative indices counted from the end
SliceBound(i, n) == IF i < 0 THEN Max(i + n, 0) ELSE Min(i, n)
PySlice(s, a, b) ==
  LET lo == SliceBound(a, Len(s))
      hi == SliceBound(b, Len(s))
  IN IF lo < hi THEN SubSeq(s, lo + 1, hi) ELSE << >>

\* a chunk is either the text itself or the decoding of a token window
WholeText(toks) == [src |-> "text", toks |-> toks, s |-> 0, e |-> Len(toks)]
Decoded(toks, a, b) == [src |-> "decode", toks |-> PySlice(toks, a, b), s |-> a, e |-> b]

\* mutation: the boundary case total_tokens = max_tokens goes to the loop
FitsInOneChunk_strict(total) == max_tokens > total

\* if self.max_tokens >= total_tokens
FitsInOneChunk(total) == max_tokens >= total

\* mutation: the window end is not clamped to the token count
WindowEnd_noClamp(start, total) == start + max_tokens

\* end_idx = min(start_idx + self.max_tokens, total_tokens)
WindowEnd(start, total) == Min(start + max_tokens, total)

\* mutation: the next window starts where the last one ended
NextStart_atEnd(end) == end

\* start_idx = end_idx - self.token_overlap
NextStart(end) == end - token_overlap

\* ------------------------------------------------- collaborator behaviour
\* values a model call can parse (model_dump of the response model): the
\* empty dict, a clean value, a value with a NUL and a control character
ParsedValues == { << >>, <<<<97>>>>, <<<<0, 98, 27>>>> }
Refusals == {"policy"}
\* exceptions the collaborators raise; all of them derive from Exception
TextErrors == {"Unsupported format", "ImportError"}
TokenizerErrors == {"tokenizer error"}
CallErrors == {"APIError"}
DumpErrors == {"TypeError"}
Errors == TextErrors \cup TokenizerErrors \cup CallErrors \cup DumpErrors

Outcome(k, t, v) == [kind |-> k, text |-> t, value |-> v]
ModelOutcomes ==
  {Outcome("refusal", r, << >>) : r \in Refusals}
  \cup {Outcome("parsed", "", v) : v \in ParsedValues}
  \cup {Outcome("unparsed", "", << >>)}
  \cup {Outcome("error", e, << >>) : e \in CallErrors}

\* ------------------------------------------------------ extract_structured
\* the prompt carries the previous data only `if previous_data:`
PromptPrevious(previous_data) == IF Truthy(previous_data) THEN previous_data ELSE None

\* the dict extract_structured returns for what the model call did
ExtractStructuredResult(o) ==
  CASE o.kind = "refusal" ->
         [status |-> "failed", message |-> <<Lit("Refusal: "), Lit(o.text)>>]
    [] o.kind = "parsed" ->
         [status |-> "success", data |-> Some(sanitize_data(o.value)),
          message |-> <<Lit("Extraction successful")>>]
    [] o.kind = "unparsed" ->
         [status |-> "failed", message |-> <<Lit("Failed to parse response")>>]
    [] OTHER ->
         [status |-> "failed", message |-> <<Lit(o.text)>>]

\* ------------------------------------------------------------ process_file
NoTextResult == [status |-> "failed", message |-> <<Lit("No text content found")>>]

\* mutation: the handler catches ValueError only
CaughtByProcessFile_valueErrorOnly(e) == e = "Unsupported format"

\* `except Exception as e` of process_file: the classes it catches
CaughtByProcessFile(e) == e \in Errors

\* return {"status": "failed", "message": str(e)}
ExceptResult(e) == [status |-> "failed", message |-> <<Lit(e)>>]

PartialFailureResult(acc, i, n, res) ==
  [status |-> "failed", data |-> acc,
   message |-> <<Lit("Partial failure at chunk "), Num(i), Lit("/"), Num(n), Lit(": ")>>
               \o res.message]

\* mutation: the partial-failure dict is returned for every chunk failure
ChunkFailureResult_alwaysPartial(acc, i, n, res) == PartialFailureResult(acc, i, n, res)

\* if accumulated: return {partial failure}; return result
ChunkFailureResult(acc, i, n, res) ==
  IF Truthy(acc) THEN PartialFailureResult(acc, i, n, res) ELSE res

SuccessResult(acc, n) ==
  [status |-> "success", data |-> acc,
   message |-> <<Lit("All "), Num(n), Lit(" chunks processed")>>]

\* mutation: data already accumulated is kept instead of replaced
NewAccumulated_keepFirst(acc, res) == IF Truthy(acc) THEN acc ELSE res.data

\* accumulated = result["data"]
NewAccumulated(acc, res) == res.data

\* a text: its non-space characters (what strip() keeps) and its tokens
Text(c, t) == [nonspace |-> c, ntok |-> t]
NoText == Text(0, 0)

\* mutation: `if not text` - only the empty text counts as no content
IsBlank_emptyOnly(txt) == txt.ntok = 0

\* if not text.strip()
IsBlank(txt) == txt.nonspace = 0

\* self.tokenizer.encode(text): the tokens of the text, named by position
encode(txt) == [i \in 1..txt.ntok |-> i]

\* len(self.tokenizer.encode(text))
count_tokens(txt) == Len(encode(txt))

NoResult == [status |-> "none"]
NoCall == [idx |-> 0, previous_data |-> None, prompt_previous |-> None]

\* mutation: a failed chunk is tried again
OnChunkFailure_retry == "process"

\* a failed chunk ends process_file: both branches at lines 250-252 return
OnChunkFailure == "done"

\* an exception e raised inside the try block of process_file
Raise(e, why) ==
  /\ cause' = why
  /\ IF CaughtByProcessFile(e)
       THEN pc' = "done" /\ result' = ExceptResult(e)
       ELSE pc' = "raised" /\ result' = result

\* ---------------------------------------------------------------- state
MaxTokensValues == -1..MaxMaxTokens
OverlapValues == -1..MaxOverlap

\* the components a specification does not exercise stay as constructed
NoDocs == << >>
Idle == [pc |-> "idle"]
OthersIdle == docs = NoDocs /\ startup = Idle /\ san = Idle /\ pdf = Idle /\ docx = Idle /\ lookup = Idle /\ service = Idle

Init ==
  /\ OthersIdle
  /\ max_tokens \in MaxTokensValues
  /\ token_overlap \in OverlapValues
  /\ pc = "start"
  /\ text = NoText
  /\ total_tokens = 0
  /\ tokens = << >>
  /\ start_idx = 0
  /\ chunks = << >>
  /\ idx = 0
  /\ accumulated = None
  /\ call = NoCall
  /\ num_calls = 0
  /\ cause = "none"
  /\ last = NoResult
  /\ result = NoResult

\* text = await asyncio.to_thread(self.extract_text, file_path)
ExtractText ==
  /\ pc = "start"
  /\ UNCHANGED otherVars
  /\ \/ \E e \in TextErrors :
          /\ Raise(e, "extract_text")
          /\ UNCHANGED text
     \/ \E t \in 0..MaxT, c \in 0..1 :
          /\ (t = 0) => (c = 0)
          /\ text' = Text(c, t)
          /\ pc' = "text"
          /\ UNCHANGED <<cause, result>>
  /\ UNCHANGED <<max_tokens, token_overlap, total_tokens, tokens, start_idx,
                 chunks, idx, accumulated, call, num_calls, last>>

\* if not text.strip(): return ...; total_tokens = self.count_tokens(text)
CheckText ==
  /\ pc = "text"
  /\ UNCHANGED otherVars
  /\ IF IsBlank(text)
       THEN /\ pc' = "done"
            /\ result' = NoTextResult
            /\ cause' = "no_text"
            /\ UNCHANGED total_tokens
       ELSE \/ \E e \in TokenizerErrors :
                 Raise(e, "count_tokens") /\ UNCHANGED total_tokens
            \/ /\ total_tokens' = count_tokens(text)
               /\ pc' = "chunk_text"
               /\ UNCHANGED <<cause, result>>
  /\ UNCHANGED <<max_tokens, token_overlap, text, tokens, start_idx, chunks,
                 idx, accumulated, call, num_calls, last>>

\* chunk_text up to the loop: encode, the one-chunk return, start_idx = 0
ChunkTextBegin ==
  /\ pc = "chunk_text"
  /\ UNCHANGED otherVars
  /\ tokens' = encode(text)
  /\ total_tokens' = Len(tokens')
  /\ start_idx' = 0
  /\ IF FitsInOneChunk(total_tokens')
       THEN /\ chunks' = <<WholeText(tokens')>>
            /\ pc' = "process"
            /\ idx' = 1
       ELSE /\ chunks' = << >>
            /\ pc' = "chunk_loop"
            /\ idx' = idx
  /\ UNCHANGED <<max_tokens, token_overlap, text, accumulated, call,
                 num_calls, cause, last, result>>

\* one evaluation of the while condition and, if it holds, of the body
ChunkLoop ==
  /\ pc = "chunk_loop"
  /\ UNCHANGED otherVars
  /\ Len(chunks) < MaxChunks
  /\ IF start_idx < total_tokens
       THEN LET end_idx == WindowEnd(start_idx, total_tokens)
            IN /\ chunks' = Append(chunks, Decoded(tokens, start_idx, end_idx))
               /\ IF end_idx = total_tokens
                    THEN /\ pc' = "process"
                         /\ idx' = 1
                         /\ start_idx' = start_idx
                    ELSE /\ pc' = "chunk_loop"
                         /\ idx' = idx
                         /\ start_idx' = NextStart(end_idx)
       ELSE /\ pc' = "process"
            /\ idx' = 1
            /\ UNCHANGED <<chunks, start_idx>>
  /\ UNCHANGED <<max_tokens, token_overlap, text, total_tokens, tokens,
                 accumulated, call, num_calls, cause, last, result>>

\* loop head of process_file: count_tokens(chunk), then extract_structured
\* up to the await of the model call
ProcessChunk ==
  /\ pc = "process"
  /\ UNCHANGED otherVars
  /\ IF idx > Len(chunks)
       THEN /\ pc' = "done"
            /\ result' = SuccessResult(accumulated, Len(chunks))
            /\ UNCHANGED <<call, num_calls, cause>>
       ELSE \/ \E e \in TokenizerErrors :
                 Raise(e, "count_tokens") /\ UNCHANGED <<call, num_calls>>
            \/ \E e \in DumpErrors :
                 /\ Truthy(accumulated)
                 /\ Raise(e, "json.dumps")
                 /\ UNCHANGED <<call, num_calls>>
            \/ /\ call' = [idx |-> idx, previous_data |-> accumulated,
                            prompt_previous |-> PromptPrevious(accumulated)]
               /\ num_calls' = num_calls + 1
               /\ pc' = "awaiting"
               /\ UNCHANGED <<cause, result>>
  /\ UNCHANGED <<max_tokens, token_overlap, text, total_tokens, tokens,
                 start_idx, chunks, idx, accumulated, last>>

\* the model call completes; extract_structured returns and process_file
\* handles the returned dict
ModelResponds ==
  /\ pc = "awaiting"
  /\ UNCHANGED otherVars
  /\ \E o \in ModelOutcomes :
       LET res == ExtractStructuredResult(o)
           n == Len(chunks)
       IN /\ last' = res
          /\ IF res.status = "success"
               THEN /\ accumulated' = NewAccumulated(accumulated, res)
                    /\ IF idx = n
                         THEN /\ pc' = "done"
                              /\ result' = SuccessResult(accumulated', n)
                              /\ idx' = idx
                              /\ cause' = "none"
                         ELSE /\ pc' = "process"
                              /\ idx' = idx + 1
                              /\ UNCHANGED <<result, cause>>
               ELSE /\ pc' = OnChunkFailure
                    /\ result' = ChunkFailureResult(accumulated, idx, n, res)
                    /\ cause' = o.kind
                    /\ UNCHANGED <<accumulated, idx>>
  /\ UNCHANGED <<max_tokens, token_overlap, text, total_tokens, tokens,
                 start_idx, chunks, call, num_calls>>

Next ==
  \/ ExtractText
  \/ CheckText
  \/ ChunkTextBegin
  \/ ChunkLoop
  \/ ProcessChunk
  \/ ModelResponds

Spec == Init /\ [][Next]_vars

\* ------------------------------------------------------------ properties
\* the model call of the current chunk failed (refusal, unparsable
\* response, exception inside the call)
ModelCallFailed == cause \in {"refusal", "unparsed", "error"}

\* chunk_text has returned its list
ChunkTextReturned == idx >= 1

PartialMessage(i, n, reason) ==
  <<Lit("Partial failure at chunk "), Num(i), Lit("/"), Num(n), Lit(": ")>> \o reason

\* C1: when the model call for chunk i of N fails after an earlier chunk
\* succeeded, whatever value that chunk returned, the result is failed,
\* carries the accumulated value as data and its message names chunk i of N
\* and the failure reason.
C1_PartialFailureCarriesData ==
  (pc = "done" /\ ModelCallFailed /\ idx > 1) =>
     result = [status |-> "failed", data |-> accumulated,
               message |-> PartialMessage(idx, Len(chunks), last.message)]

\* C2: each successful chunk replaces the accumulated data by the value
\* returned for it, and when every chunk succeeded the result is success
\* with the last chunk's value and a message reporting the N chunks.
C2_SuccessIsLastChunkValue ==
  /\ (last.status = "success") => (accumulated = last.data)
  /\ (pc = "done" /\ last.status = "success" /\ num_calls = Len(chunks)) =>
        result = [status |-> "success", data |-> last.data,
                  message |-> <<Lit("All "), Num(Len(chunks)), Lit(" chunks processed")>>]

\* a document of several chunks succeeded, and the last chunk's value
\* differs from the non-empty value accumulated before it
C2_Witness ==
  /\ pc = "done" /\ result.status = "success" /\ Len(chunks) >= 2
  /\ Truthy(call.previous_data) /\ call.previous_data # result.data

\* C3: when the model call of the first chunk fails, the result is failed
\* and has no data field; for a refusal the message contains the reason.
C3_FirstChunkFailureHasNoData ==
  (pc = "done" /\ ModelCallFailed /\ idx = 1) =>
     /\ result.status = "failed"
     /\ "data" \notin DOMAIN result
     /\ (cause = "refusal") =>
           \E r \in Refusals : \E k \in DOMAIN result.message :
              result.message[k] = Lit(r)

\* the model refused the first chunk of a document
C3_Witness == pc = "done" /\ idx = 1 /\ cause = "refusal" /\ num_calls = 1

\* C4: whenever process_file ends in failure after at least one chunk
\* succeeded, for any cause, the result carries the accumulated data.
C4_FailureCarriesPartialData ==
  (pc = "done" /\ result.status = "failed" /\ idx > 1) =>
     ("data" \in DOMAIN result /\ result.data = accumulated)

\* C5: no exception escapes process_file; it returns a result whose status
\* is success or failed and which has a message.
C5_NoExceptionEscapes ==
  /\ pc # "raised"
  /\ (pc = "done") =>
        /\ result.status \in {"success", "failed"}
        /\ "message" \in DOMAIN result
        /\ Len(result.message) > 0

\* the tokenizer raised while a later chunk was being prepared
C5_Witness == pc = "done" /\ cause = "count_tokens" /\ idx > 1

\* C6: a text that is empty or only whitespace gives failed with
\* "No text content found", no model call and no chunking.
C6_NoTextContent ==
  (pc \notin {"start", "text"} /\ cause # "extract_text" /\ text.nonspace = 0) =>
     /\ pc = "done"
     /\ result = [status |-> "failed", message |-> <<Lit("No text content found")>>]
     /\ num_calls = 0
     /\ chunks = << >> /\ tokens = << >> /\ idx = 0

\* a whitespace-only text (it has tokens) was processed
C6_Witness == pc = "done" /\ text.nonspace = 0 /\ text.ntok > 0 /\ cause = "no_text"

\* C7: chunk_text terminates for every configuration: the window start
\* advances in every iteration that continues the loop.
C7_WindowAlwaysAdvances ==
  [][(pc = "chunk_loop" /\ pc' = "chunk_loop") => start_idx' > start_idx]_vars

\* tokens appearing in some returned chunk
CoveredTokens == UNION {{chunks[k].toks[j] : j \in DOMAIN chunks[k].toks} : k \in DOMAIN chunks}

\* the chunk without the tokens it shares with its predecessor
WithoutOverlap(k) ==
  IF k = 1 \/ token_overlap <= 0 THEN chunks[k].toks
  ELSE SubSeq(chunks[k].toks, token_overlap + 1, Len(chunks[k].toks))

RECURSIVE Reconstructed(_)
Reconstructed(k) == IF k = 0 THEN << >> ELSE Reconstructed(k - 1) \o WithoutOverlap(k)

\* C8: whenever chunk_text returns, the windows cover [0, T) with no gap
\* and removing the overlaps reconstructs the token stream exactly once.
C8_WindowsCoverStream ==
  ChunkTextReturned =>
     /\ CoveredTokens = 1..total_tokens
     /\ Reconstructed(Len(chunks)) = tokens

\* C9: a text of at most max_tokens tokens gives exactly one chunk, the
\* text itself, and every returned chunk list has at least one element.
C9_OneChunkWhenFits ==
  ChunkTextReturned =>
     /\ Len(chunks) >= 1
     /\ (total_tokens <= max_tokens) => (chunks = <<WholeText(encode(text))>>)

\* a text of exactly max_tokens tokens was chunked
C9_Witness == ChunkTextReturned /\ total_tokens = max_tokens /\ Len(chunks) = 1

\* C10: for T > max_tokens and 0 <= token_overlap < max_tokens the last
\* window ends at T, every window starts at or after 0 and none is longer
\* than max_tokens.
C10_WindowBounds ==
  (ChunkTextReturned /\ total_tokens > max_tokens
     /\ 0 <= token_overlap /\ token_overlap < max_tokens) =>
     /\ chunks[Len(chunks)].e = total_tokens
     /\ \A k \in DOMAIN chunks :
          /\ chunks[k].s >= 0
          /\ chunks[k].e - chunks[k].s <= max_tokens
          /\ Len(chunks[k].toks) <= max_tokens
          /\ chunks[k].toks = SubSeq(tokens, chunks[k].s + 1, chunks[k].e)

\* a text was split into three or more overlapping windows
C10_Witness ==
  /\ ChunkTextReturned /\ total_tokens > max_tokens
  /\ token_overlap >= 1 /\ token_overlap < max_tokens /\ Len(chunks) >= 3

\* ======================================================================
\* Several process_file invocations on the one shared extractor
\* (main.py process_background -> extractor.process_file).  The event loop
\* runs one coroutine at a time and switches only at an await: the thread
\* that extracts the text and the model call.
\* ======================================================================
MaxDocT == 3
DocIds == {1, 2}

\* chunk_text as a function of the text, for a configuration with which the
\* loop ends
RECURSIVE ChunkWindows(_, _, _)
ChunkWindows(toks, start, acc) ==
  IF start < Len(toks)
    THEN LET end_idx == WindowEnd(start, Len(toks))
             more == Append(acc, Decoded(toks, start, end_idx))
         IN IF end_idx = Len(toks) THEN more
            ELSE ChunkWindows(toks, NextStart(end_idx), more)
    ELSE acc

chunk_text(txt) ==
  LET toks == encode(txt)
  IN IF FitsInOneChunk(Len(toks)) THEN <<WholeText(toks)>>
     ELSE ChunkWindows(toks, 0, << >>)

\* the locals of one invocation, and the answers its model calls received
NewDoc == [pc |-> "start", text |-> NoText, chunks |-> << >>, idx |-> 0,
           accumulated |-> None, call |-> NoCall, responses |-> << >>,
           result |-> NoResult]

\* mutation: accumulated kept in an attribute of the shared extractor
StoreAccumulated_shared(ds, d, v) == [x \in DOMAIN ds |-> [ds[x] EXCEPT !.accumulated = v]]

\* accumulated = ... assigns a local variable of the invocation d
StoreAccumulated(ds, d, v) == [ds EXCEPT ![d].accumulated = v]

\* result = await self.extract_structured(chunk, accumulated): the call of
\* chunk i is issued with the invocation's own accumulated data
IssueCall(st, i) ==
  [st EXCEPT !.idx = i, !.pc = "awaiting",
             !.call = [idx |-> i, chunk |-> st.chunks[i],
                       previous_data |-> st.accumulated,
                       prompt_previous |-> PromptPrevious(st.accumulated)]]

ConcInit ==
  /\ max_tokens \in 1..MaxMaxTokens
  /\ token_overlap \in 0..MaxOverlap
  /\ token_overlap < max_tokens
  /\ pc = "idle" /\ text = NoText /\ total_tokens = 0 /\ tokens = << >>
  /\ start_idx = 0 /\ chunks = << >> /\ idx = 0 /\ accumulated = None
  /\ call = NoCall /\ num_calls = 0 /\ cause = "none" /\ last = NoResult
  /\ result = NoResult
  /\ docs = [d \in DocIds |-> NewDoc]
  /\ startup = Idle /\ san = Idle /\ pdf = Idle /\ docx = Idle /\ lookup = Idle /\ service = Idle

\* the text of invocation d arrives from the thread; process_file runs on
\* to its first await of a model call (or returns for a blank text)
DocExtracted(d) ==
  /\ docs[d].pc = "start"
  /\ \E t \in 0..MaxDocT, c \in 0..1 :
       /\ (t = 0) => (c = 0)
       /\ LET txt == Text(c, t)
              ds == StoreAccumulated([docs EXCEPT ![d].text = txt], d, None)
          IN IF IsBlank(txt)
               THEN docs' = [ds EXCEPT ![d].pc = "done", ![d].result = NoTextResult]
               ELSE docs' = [ds EXCEPT ![d] =
                               IssueCall([ds[d] EXCEPT !.chunks = chunk_text(txt)], 1)]
  /\ UNCHANGED <<configVars, fileVars, startup, san, pdf, docx, lookup, service>>

\* the model call of invocation d completes; process_file handles the dict
\* and runs on to the next await or to its return
DocResponds(d) ==
  /\ docs[d].pc = "awaiting"
  /\ \E o \in ModelOutcomes :
       LET res == ExtractStructuredResult(o)
           st == [docs[d] EXCEPT !.responses = Append(@, o)]
           n == Len(st.chunks)
       IN IF res.status = "success"
            THEN LET ds == StoreAccumulated([docs EXCEPT ![d] = st], d,
                                            NewAccumulated(st.accumulated, res))
                 IN IF st.idx = n
                      THEN docs' = [ds EXCEPT ![d].pc = "done",
                                     ![d].result = SuccessResult(ds[d].accumulated, n)]
                      ELSE docs' = [ds EXCEPT ![d] = IssueCall(ds[d], st.idx + 1)]
            ELSE docs' = [docs EXCEPT ![d] =
                            [st EXCEPT !.pc = "done",
                                       !.result = ChunkFailureResult(st.accumulated, st.idx, n, res)]]
  /\ UNCHANGED <<configVars, fileVars, startup, san, pdf, docx, lookup, service>>

ConcNext == \E d \in DocIds : DocExtracted(d) \/ DocResponds(d)

SpecConcurrent == ConcInit /\ [][ConcNext]_vars

\* what process_file does running alone on a text of n chunks whose model
\* calls are answered by resp: the answers k.. still to be handled
RECURSIVE AloneRun(_, _, _, _)
AloneRun(n, resp, k, acc) ==
  IF k > Len(resp) THEN [done |-> FALSE, acc |-> acc, result |-> NoResult]
  ELSE LET res == ExtractStructuredResult(resp[k])
       IN IF res.status = "success"
            THEN IF k = n
                   THEN [done |-> TRUE, acc |-> res.data,
                         result |-> [status |-> "success", data |-> res.data,
                                     message |-> <<Lit("All "), Num(n), Lit(" chunks processed")>>]]
                   ELSE AloneRun(n, resp, k + 1, res.data)
            ELSE [done |-> TRUE, acc |-> acc,
                  result |-> IF Truthy(acc)
                               THEN [status |-> "failed", data |-> acc,
                                     message |-> PartialMessage(k, n, res.message)]
                               ELSE res]

Alone(st) ==
  IF st.text.nonspace = 0
    THEN [done |-> TRUE, acc |-> None,
          result |-> [status |-> "failed", message |-> <<Lit("No text content found")>>]]
    ELSE AloneRun(Len(st.chunks), st.responses, 1, None)

\* C11: interleaved invocations on the shared extractor each return what
\* they would return alone with the same text and model answers, and the
\* previous data handed to a model call is the invocation's own.
C11_InvocationsAreIndependent ==
  \A d \in DOMAIN docs :
     LET st == docs[d]
         ref == Alone(st)
     IN /\ (st.pc = "done") => (ref.done /\ st.result = ref.result)
        /\ (st.pc = "awaiting") =>
              /\ ~ref.done
              /\ st.call.previous_data = ref.acc
              /\ st.call.idx = Len(st.responses) + 1
              /\ st.call.chunk = st.chunks[st.call.idx]

\* a document failed after both invocations had been between chunks at the
\* same time with different accumulated data
C11_Witness ==
  /\ docs # NoDocs
  /\ docs[1].pc = "done" /\ docs[1].result.status = "failed"
  /\ Len(docs[1].responses) >= 2
  /\ docs[2].pc = "awaiting" /\ Len(docs[2].responses) >= 1
  /\ Truthy(docs[1].accumulated) /\ Truthy(docs[2].accumulated)
  /\ docs[1].accumulated # docs[2].accumulated

\* ======================================================================
\* Schema compiler (src/utils/schema_utils.py) and lifespan startup
\* (src/main.py).  A schema fragment is a record of the keys the compiler
\* reads; a compiled type is a record naming the Python type.
\* ======================================================================
MaxDepth == 2

\* the names _resolve_python_type knows
ScalarTypes == {"string", "integer", "number", "boolean"}
KnownTypes == ScalarTypes \cup {"object", "array"}

\* what the `type` key of a fragment can hold besides a known name: no key
\* at all, a name the compiler does not know, a list of names (unhashable)
OddTypes == {"missing", "null", "union"}

\* a fragment: `type`, `properties` (in file order), `items` (items_key
\* tells an absent key from an empty `items`)
Fragment(t, props, key, items) ==
  [type |-> t, properties |-> props, items_key |-> key, items |-> items]
\* a property: its name, its schema, whether the parent's `required` lists it
Property(n, sch, listed) == [name |-> n, schema |-> sch, listed |-> listed]

Leaf(t) == Fragment(t, << >>, FALSE, << >>)
ObjectOf(props) == Fragment("object", props, FALSE, << >>)
ArrayOf(n) == Fragment("array", << >>, TRUE, <<n>>)
ArrayNoItems == Fragment("array", << >>, FALSE, << >>)
ArrayEmptyItems == Fragment("array", << >>, TRUE, << >>)

RECURSIVE Fragments(_)
Fragments(depth) ==
  IF depth = 0
    THEN {Leaf(t) : t \in ScalarTypes \cup OddTypes}
         \cup {ObjectOf(<< >>), ArrayNoItems, ArrayEmptyItems}
    ELSE LET sub == Fragments(depth - 1)
         IN sub \cup {ObjectOf(<<Property("x", n, r)>>) : n \in sub, r \in BOOLEAN}
                \cup {ArrayOf(n) : n \in sub}
                \cup {ObjectOf(<<Property("x", Leaf("string"), r), Property("y", n, FALSE)>>) :
                        n \in Fragments(0), r \in BOOLEAN}

\* the schema files: a root with no property, one property or two
RootSchemas ==
  {ObjectOf(<< >>)}
  \cup {ObjectOf(<<Property("a", n, r)>>) : n \in Fragments(MaxDepth), r \in BOOLEAN}
  \cup {ObjectOf(<<Property("a", n, TRUE), Property("b", Leaf("integer"), FALSE)>>) :
          n \in Fragments(0)}

\* compiled types
Ty(k, fields, elem, extra) == [kind |-> k, fields |-> fields, elem |-> elem, extra |-> extra]
PyStr == Ty("str", << >>, << >>, "")
PyInt == Ty("int", << >>, << >>, "")
PyFloat == Ty("float", << >>, << >>, "")
PyBool == Ty("bool", << >>, << >>, "")
PyAny == Ty("Any", << >>, << >>, "")
ListOf(t) == Ty("List", << >>, <<t>>, "")
DictStrAny == Ty("Dict", << >>, << >>, "")
\* create_model(name, __config__=ConfigDict(extra="forbid"), **fields)
create_model(fields) == Ty("Model", fields, << >>, "forbid")
\* an exception raised while compiling
CompileError(e) == Ty("error", << >>, << >>, e)
NoModel == Ty("none", << >>, << >>, "")

\* mutation: a property is required only if the schema's list names it
FieldRequired_fromList(listed) == listed

\* Field(..., description=...): the ellipsis makes the field required
FieldRequired(listed) == TRUE

\* mutation: an array without items is a list of anything
DefaultItemsType_any == ListOf(PyAny)

\* if not items: return List[str]
DefaultItemsType == ListOf(PyStr)

\* json_type = field_info.get("type", "string")
JsonType(node) == IF node.type = "missing" THEN "string" ELSE node.type

\* mapping.get(json_type, Any); a list is unhashable and makes get raise
BaseType(json_type) ==
  CASE json_type = "string" -> PyStr
    [] json_type = "integer" -> PyInt
    [] json_type = "number" -> PyFloat
    [] json_type = "boolean" -> PyBool
    [] json_type = "union" -> CompileError("TypeError")
    [] OTHER -> PyAny

\* the first exception raised while the fields are resolved in order
FirstError(fields) ==
  LET bad == {i \in DOMAIN fields : fields[i].type.kind = "error"}
  IN fields[CHOOSE i \in bad : \A j \in bad : i <= j].type

HasError(fields) == \E i \in DOMAIN fields : fields[i].type.kind = "error"

RECURSIVE resolve_python_type(_)
resolve_python_type(node) ==
  LET json_type == JsonType(node)
  IN IF json_type = "array"
       THEN IF node.items = << >> THEN DefaultItemsType
            ELSE LET inner_type == resolve_python_type(node.items[1])
                 IN IF inner_type.kind = "error" THEN inner_type ELSE ListOf(inner_type)
     ELSE IF json_type = "object"
       THEN IF node.properties = << >> THEN DictStrAny
            ELSE LET nested_fields ==
                       [i \in DOMAIN node.properties |->
                          [name |-> node.properties[i].name,
                           type |-> resolve_python_type(node.properties[i].schema),
                           required |-> FieldRequired(node.properties[i].listed)]]
                 IN IF HasError(nested_fields) THEN FirstError(nested_fields)
                    ELSE create_model(nested_fields)
     ELSE BaseType(json_type)

\* build_model_from_schema once the file is found and parsed: the root's
\* properties become the fields of the root model
build_model(schema) ==
  LET fields ==
        [i \in DOMAIN schema.properties |->
           [name |-> schema.properties[i].name,
            type |-> resolve_python_type(schema.properties[i].schema),
            required |-> FieldRequired(schema.properties[i].listed)]]
  IN IF HasError(fields) THEN FirstError(fields) ELSE create_model(fields)

\* -------------------------------------------------------- validate_model
\* what importing and calling the SDK's to_strict_json_schema can do
ValidatorOutcomes == {"pass", "invalid", "import_error"}

\* validate_model: the verdict it leaves and the exception it raises
validate_model(v) ==
  CASE v = "pass" -> [verdict |-> "pass", raises |-> ""]
    [] v = "import_error" -> [verdict |-> "skipped", raises |-> ""]
    [] OTHER -> [verdict |-> "fail", raises |-> "ValueError"]

\* --------------------------------------------------------------- lifespan
\* parameters of GenericDataExtractor.__init__ and the keywords lifespan
\* passes to it
InitParams == {"model_id", "api_key", "max_tokens", "token_overlap",
               "response_model", "scan_density_threshold"}
PassedKeywords == {"model_id", "max_tokens", "token_overlap", "response_model",
                   "ocr_method"}

NewStartup(f, sch) ==
  [pc |-> "load", file |-> f, schema |-> sch, model |-> NoModel,
   verdict |-> "none", db |-> "none", s3 |-> "none", error |-> "", at |-> ""]

\* except Exception as e: logger.error(...); raise
StartupFails(st, step, e) == [st EXCEPT !.pc = "failed", !.error = e, !.at = step]

StartupInit ==
  /\ max_tokens = 0 /\ token_overlap = 0
  /\ pc = "idle" /\ text = NoText /\ total_tokens = 0 /\ tokens = << >>
  /\ start_idx = 0 /\ chunks = << >> /\ idx = 0 /\ accumulated = None
  /\ call = NoCall /\ num_calls = 0 /\ cause = "none" /\ last = NoResult
  /\ result = NoResult
  /\ docs = NoDocs /\ san = Idle /\ pdf = Idle /\ docx = Idle /\ lookup = Idle /\ service = Idle
  /\ \/ \E sch \in RootSchemas : startup = NewStartup("ok", sch)
     \/ \E f \in {"not_found", "bad_json"} : startup = NewStartup(f, ObjectOf(<< >>))

\* response_model = DynamicModelBuilder.build_model_from_schema(path)
LoadSchema ==
  /\ startup.pc = "load"
  /\ IF startup.file = "not_found"
       THEN startup' = StartupFails(startup, "compile", "FileNotFoundError")
     ELSE IF startup.file = "bad_json"
       THEN startup' = StartupFails(startup, "compile", "JSONDecodeError")
     ELSE LET model == build_model(startup.schema)
          IN IF model.kind = "error"
               THEN startup' = StartupFails([startup EXCEPT !.model = model],
                                            "compile", model.extra)
               ELSE startup' = [startup EXCEPT !.model = model, !.pc = "validate"]
  /\ UNCHANGED <<configVars, fileVars, docs, san, pdf, docx, lookup, service>>

\* DynamicModelBuilder.validate_model(response_model)
ValidateModel ==
  /\ startup.pc = "validate"
  /\ \E v \in ValidatorOutcomes :
       LET r == validate_model(v)
           st == [startup EXCEPT !.verdict = r.verdict]
       IN IF r.raises # ""
            THEN startup' = StartupFails(st, "validate", r.raises)
            ELSE startup' = [st EXCEPT !.pc = "db"]
  /\ UNCHANGED <<configVars, fileVars, docs, san, pdf, docx, lookup, service>>

\* db_client = DatabaseClient(...); test_connection() is only logged
InitDatabase ==
  /\ startup.pc = "db"
  /\ \E connected \in BOOLEAN :
       startup' = [startup EXCEPT !.db = IF connected THEN "connected" ELSE "unreachable",
                                  !.pc = "s3"]
  /\ UNCHANGED <<configVars, fileVars, docs, san, pdf, docx, lookup, service>>

\* the S3 client is made only when the credentials are configured
InitS3 ==
  /\ startup.pc = "s3"
  /\ \E configured \in BOOLEAN :
       startup' = [startup EXCEPT !.s3 = IF configured THEN "client" ELSE "skipped",
                                  !.pc = "extractor"]
  /\ UNCHANGED <<configVars, fileVars, docs, san, pdf, docx, lookup, service>>

\* extractor = GenericDataExtractor(model_id=..., ..., ocr_method="vlm"):
\* a keyword __init__ does not declare raises TypeError
ConstructExtractor ==
  /\ startup.pc = "extractor"
  /\ IF PassedKeywords \subseteq InitParams
       THEN startup' = [startup EXCEPT !.pc = "initialize"]
       ELSE startup' = StartupFails(startup, "extractor", "TypeError")
  /\ UNCHANGED <<configVars, fileVars, docs, san, pdf, docx, lookup, service>>

StartupNext ==
  \/ LoadSchema
  \/ ValidateModel
  \/ InitDatabase
  \/ InitS3
  \/ ConstructExtractor

SpecStartup == StartupInit /\ [][StartupNext]_vars

\* ----------------------------------------------- properties of startup
\* the steps of lifespan that follow validate_model
AfterValidation == {"db", "s3", "extractor", "initialize"}

\* the schema file was read and build_model_from_schema has returned or raised
Compiled == startup.pc # "idle" /\ startup.pc # "load" /\ startup.file = "ok"

\* C12: a compile failure or a failing validation makes startup raise, and
\* startup goes on towards serving requests only with a compiled model for
\* which the validation verdict was obtained and is a pass.
C12_StartupNeedsPassedValidation ==
  /\ (startup.pc # "idle" /\ startup.pc # "load" /\ startup.model.kind # "Model") =>
        (startup.pc = "failed" /\ startup.at = "compile")
  /\ (startup.pc # "idle" /\ startup.verdict = "fail") =>
        (startup.pc = "failed" /\ startup.at = "validate")
  /\ (startup.pc \in AfterValidation) =>
        (startup.model.kind = "Model" /\ startup.verdict = "pass")

\* some fragment of the schema has a list as its `type`
RECURSIVE HasUnion(_)
HasUnion(node) ==
  \/ node.type = "union"
  \/ \E i \in DOMAIN node.items : HasUnion(node.items[i])
  \/ \E i \in DOMAIN node.properties : HasUnion(node.properties[i].schema)

\* the fragment node was compiled to ty: every fragment below it whose type
\* is none of the six names was compiled to Any
RECURSIVE OddTypesAreAny(_, _)
OddTypesAreAny(node, ty) ==
  /\ (node.type \notin KnownTypes) => (ty.kind = "Any")
  /\ (node.type = "array" /\ node.items # << >>) =>
        (ty.kind = "List" /\ OddTypesAreAny(node.items[1], ty.elem[1]))
  /\ (node.type = "object" /\ node.properties # << >>) =>
        /\ ty.kind = "Model"
        /\ Len(ty.fields) = Len(node.properties)
        /\ \A i \in DOMAIN node.properties :
              OddTypesAreAny(node.properties[i].schema, ty.fields[i].type)

\* C13 as stated: a fragment whose `type` is missing or is none of the six
\* names compiles to Any, and compiling does not fail.
C13_OddTypeCompilesToAny ==
  Compiled =>
     /\ startup.model.kind = "Model"
     /\ Len(startup.model.fields) = Len(startup.schema.properties)
     /\ \A i \in DOMAIN startup.schema.properties :
           OddTypesAreAny(startup.schema.properties[i].schema,
                          startup.model.fields[i].type)

\* the fragment node was compiled to ty: every property declared below it
\* is a field of its model, in order, and required
RECURSIVE AllRequired(_, _)
AllRequired(node, ty) ==
  /\ (node.type = "array" /\ node.items # << >>) =>
        (ty.kind = "List" /\ AllRequired(node.items[1], ty.elem[1]))
  /\ (node.type = "object" /\ node.properties # << >>) =>
        /\ ty.kind = "Model"
        /\ Len(ty.fields) = Len(node.properties)
        /\ \A i \in DOMAIN node.properties :
              /\ ty.fields[i].name = node.properties[i].name
              /\ ty.fields[i].required
              /\ AllRequired(node.properties[i].schema, ty.fields[i].type)

\* C14: every declared property of every object node, at the root and at
\* every depth, is a required field of the compiled model, whatever the
\* schema's `required` list says.
C14_EveryPropertyRequired ==
  (Compiled /\ startup.model.kind = "Model") =>
     /\ Len(startup.model.fields) = Len(startup.schema.properties)
     /\ \A i \in DOMAIN startup.schema.properties :
           /\ startup.model.fields[i].name = startup.schema.properties[i].name
           /\ startup.model.fields[i].required
           /\ AllRequired(startup.schema.properties[i].schema,
                          startup.model.fields[i].type)

\* a schema whose `required` lists leave out a root property and a property
\* of an object inside an array was compiled
C14_Witness ==
  /\ Compiled /\ startup.model.kind = "Model"
  /\ startup.schema.properties =
       <<Property("a", ArrayOf(ObjectOf(<<Property("x", Leaf("string"), FALSE)>>)), FALSE)>>

\* the fragment node was compiled to ty: every object node below it is a
\* model that forbids undeclared fields
RECURSIVE Closed(_, _)
Closed(node, ty) ==
  /\ (node.type = "array" /\ node.items # << >>) =>
        (ty.kind = "List" /\ Closed(node.items[1], ty.elem[1]))
  /\ (node.type = "object") =>
        /\ ty.kind = "Model"
        /\ ty.extra = "forbid"
        /\ Len(ty.fields) = Len(node.properties)
        /\ \A i \in DOMAIN node.properties :
              Closed(node.properties[i].schema, ty.fields[i].type)

\* C15: every object node of a compiled schema, at every depth, is closed.
C15_ObjectsAreClosed ==
  (Compiled /\ startup.model.kind = "Model") =>
     /\ startup.model.extra = "forbid"
     /\ Len(startup.model.fields) = Len(startup.schema.properties)
     /\ \A i \in DOMAIN startup.schema.properties :
           Closed(startup.schema.properties[i].schema, startup.model.fields[i].type)

\* the fragment node was compiled to ty: every array below it that has no
\* items, or empty items, is a list of str
RECURSIVE NoItemsIsListOfStr(_, _)
NoItemsIsListOfStr(node, ty) ==
  /\ (node.type = "array" /\ node.items = << >>) => (ty = ListOf(PyStr))
  /\ (node.type = "array" /\ node.items # << >>) =>
        (ty.kind = "List" /\ NoItemsIsListOfStr(node.items[1], ty.elem[1]))
  /\ (node.type = "object" /\ node.properties # << >>) =>
        /\ ty.kind = "Model"
        /\ Len(ty.fields) = Len(node.properties)
        /\ \A i \in DOMAIN node.properties :
              NoItemsIsListOfStr(node.properties[i].schema, ty.fields[i].type)

\* C16: an array node whose items is missing or empty compiles to a list of
\* str and never causes a compile error.
C16_ArrayWithoutItemsIsListOfStr ==
  (Compiled /\ ~HasUnion(startup.schema)) =>
     /\ startup.model.kind = "Model"
     /\ Len(startup.model.fields) = Len(startup.schema.properties)
     /\ \A i \in DOMAIN startup.schema.properties :
           NoItemsIsListOfStr(startup.schema.properties[i].schema,
                              startup.model.fields[i].type)

\* a schema with an array without the items key inside an array, or with
\* empty items inside an object, was compiled
C16_Witness ==
  /\ Compiled /\ startup.model.kind = "Model"
  /\ Len(startup.schema.properties) = 1
  /\ \E r \in BOOLEAN :
        startup.schema.properties[1].schema \in
          { ArrayOf(ArrayNoItems), ObjectOf(<<Property("x", ArrayEmptyItems, r)>>) }

\* ---------------------------------------------- sanitize_data, any value
MaxStrLen == 2
MaxNest == 2

\* characters at the edges of the removed ranges, and ordinary ones
Alphabet == {0, 8, 9, 10, 11, 12, 13, 14, 31, 32, 97, 126, 127, 128}

RECURSIVE Strs(_)
Strs(n) ==
  IF n = 0 THEN {<< >>}
  ELSE LET shorter == Strs(n - 1)
       IN shorter \cup {Append(t, c) : t \in shorter, c \in Alphabet}

\* Python values: None, str, dict, list, and anything else (a number, bytes)
Value(k, s, keys, items) == [k |-> k, s |-> s, keys |-> keys, items |-> items]
PyNone == Value("none", << >>, << >>, << >>)
StrOf(s) == Value("str", s, << >>, << >>)
\* a value that is neither None, str, dict nor list, e.g. bytes
OtherOf(s) == Value("other", s, << >>, << >>)
ListVal(items) == Value("list", << >>, << >>, items)
DictVal(keys, items) == Value("dict", << >>, keys, items)

NestLeaves ==
  {PyNone, OtherOf(<<0, 97>>), StrOf(<< >>), StrOf(<<97, 9, 10, 13>>),
   StrOf(<<0, 97, 27, 127>>), StrOf(<<11, 12>>)}

RECURSIVE Nested(_)
Nested(depth) ==
  IF depth = 0 THEN NestLeaves
  ELSE LET sub == Nested(depth - 1)
       IN sub \cup {ListVal(<< >>), DictVal(<< >>, << >>)}
              \cup {ListVal(<<a>>) : a \in sub}
              \cup {ListVal(<<a, b>>) : a \in sub, b \in NestLeaves}
              \cup {DictVal(<<<<0, 107>>>>, <<a>>) : a \in sub}
              \cup {DictVal(<<<<107>>, <<27>>>>, <<a, b>>) : a \in NestLeaves, b \in NestLeaves}

SanitizeInputs == {StrOf(t) : t \in Strs(MaxStrLen)} \cup Nested(MaxNest)

\* sanitize_data(data): None and other values returned as they are, a str
\* cleaned, the values of a dict and the items of a list sanitized in place
RECURSIVE sanitize_value(_)
sanitize_value(data) ==
  IF data.k = "none" THEN data
  ELSE IF data.k = "str" THEN StrOf(SanitizeStr(data.s))
  ELSE IF data.k = "dict"
    THEN DictVal(data.keys, [i \in DOMAIN data.items |-> sanitize_value(data.items[i])])
  ELSE IF data.k = "list"
    THEN ListVal([i \in DOMAIN data.items |-> sanitize_value(data.items[i])])
  ELSE data

NewSan(x) == [pc |-> "start", x |-> x, once |-> PyNone, twice |-> PyNone]

SanInit ==
  /\ max_tokens = 0 /\ token_overlap = 0
  /\ pc = "idle" /\ text = NoText /\ total_tokens = 0 /\ tokens = << >>
  /\ start_idx = 0 /\ chunks = << >> /\ idx = 0 /\ accumulated = None
  /\ call = NoCall /\ num_calls = 0 /\ cause = "none" /\ last = NoResult
  /\ result = NoResult
  /\ docs = NoDocs /\ startup = Idle /\ pdf = Idle /\ docx = Idle /\ lookup = Idle /\ service = Idle
  /\ \E x \in SanitizeInputs : san = NewSan(x)

\* y = sanitize_data(x)
Sanitize ==
  /\ san.pc = "start"
  /\ san' = [san EXCEPT !.pc = "once", !.once = sanitize_value(san.x)]
  /\ UNCHANGED <<configVars, fileVars, docs, startup, pdf, docx, lookup, service>>

\* z = sanitize_data(y)
SanitizeAgain ==
  /\ san.pc = "once"
  /\ san' = [san EXCEPT !.pc = "twice", !.twice = sanitize_value(san.once)]
  /\ UNCHANGED <<configVars, fileVars, docs, startup, pdf, docx, lookup, service>>

SanNext == Sanitize \/ SanitizeAgain
SpecSanitize == SanInit /\ [][SanNext]_vars

\* a character the claim says is kept: not NUL, not in 0x01-0x08, not 0x0B,
\* not 0x0C, not in 0x0E-0x1F, not 0x7F
Kept(c) ==
  ~ \/ c = 0
    \/ (1 <= c /\ c <= 8)
    \/ c = 11
    \/ c = 12
    \/ (14 <= c /\ c <= 31)
    \/ c = 127

\* y is x with, in every string leaf at every depth, exactly the kept
\* characters in their order
RECURSIVE LeavesCleaned(_, _)
LeavesCleaned(x, y) ==
  /\ y.k = x.k
  /\ (x.k = "str") => (y.s = SelectSeq(x.s, Kept))
  /\ (x.k = "list" \/ x.k = "dict") =>
        /\ y.keys = x.keys
        /\ Len(y.items) = Len(x.items)
        /\ \A i \in DOMAIN x.items : LeavesCleaned(x.items[i], y.items[i])

\* C17: sanitize_data removes from a string every NUL and every character
\* of 0x01-0x08, 0x0B, 0x0C, 0x0E-0x1F and 0x7F and keeps every other
\* character in order; in nested dicts and lists it does so for every string
\* leaf at every depth.
C17_SanitizeRemovesControlChars ==
  (san.pc = "once") => LeavesCleaned(san.x, san.once)

\* a string two levels down that has removed and kept characters was sanitized
C17_Witness ==
  /\ san.pc = "once"
  /\ san.x = ListVal(<<DictVal(<<<<0, 107>>>>, <<StrOf(<<0, 97, 27, 127>>)>>),
                      StrOf(<<97, 9, 10, 13>>)>>)
  /\ san.once # san.x

\* C18: sanitize_data(sanitize_data(x)) = sanitize_data(x) for every value x.
C18_SanitizeIdempotent ==
  (san.pc = "twice") => (san.twice = san.once)

\* a value with a string of several removed characters was sanitized twice
C18_Witness ==
  /\ san.pc = "twice"
  /\ san.x = ListVal(<<StrOf(<<0, 97, 27, 127>>), StrOf(<<11, 12>>)>>)
  /\ san.once # san.x

\* ------------------------------------------------------ _extract_from_pdf
MaxPages == 3
MaxChars == 3
MaxThreshold == 2

\* a page, by len(page.get_text().strip())
Pages == {[stripped |-> k] : k \in 0..MaxChars}

RECURSIVE PageSeqs(_)
PageSeqs(n) ==
  IF n = 0 THEN {<< >>}
  ELSE LET shorter == PageSeqs(n - 1)
       IN shorter \cup {Append(ps, pg) : ps \in shorter, pg \in Pages}

\* page.get_text() of page i and pytesseract.image_to_string of its image
TextLayer(i) == [page |-> i, by |-> "text_layer"]
Recognized(i) == [page |-> i, by |-> "ocr"]

\* sep.join(parts): the separator shows only between two parts
Join(sep, parts) ==
  [sep |-> IF Len(parts) >= 2 THEN sep ELSE "", parts |-> parts]

\* mutation: a mean equal to the threshold counts as scanned
IsScanned_orEqual(total_chars, page_count, threshold) ==
  IF page_count > 0 THEN total_chars <= threshold * page_count ELSE 0 <= threshold

\* avg_chars = total_chars / page_count if page_count > 0 else 0;
\* avg_chars < self.scan_density_threshold
IsScanned(total_chars, page_count, threshold) ==
  IF page_count > 0 THEN total_chars < threshold * page_count ELSE 0 < threshold

NewPdf(pages, threshold, has_fitz) ==
  [pc |-> "open", pages |-> pages, threshold |-> threshold, fitz |-> has_fitz,
   i |-> 0, parts |-> << >>, total_chars |-> 0, ocr_parts |-> << >>,
   ocr_calls |-> << >>, result |-> Join("", << >>), error |-> "", closed |-> FALSE]

PdfInit ==
  /\ max_tokens = 0 /\ token_overlap = 0
  /\ pc = "idle" /\ text = NoText /\ total_tokens = 0 /\ tokens = << >>
  /\ start_idx = 0 /\ chunks = << >> /\ idx = 0 /\ accumulated = None
  /\ call = NoCall /\ num_calls = 0 /\ cause = "none" /\ last = NoResult
  /\ result = NoResult
  /\ docs = NoDocs /\ startup = Idle /\ san = Idle /\ docx = Idle /\ lookup = Idle /\ service = Idle
  /\ \E pages \in PageSeqs(MaxPages), threshold \in 0..MaxThreshold, has_fitz \in BOOLEAN :
        pdf = NewPdf(pages, threshold, has_fitz)

\* if not fitz: raise ImportError; doc = fitz.open(file_path)
PdfOpen ==
  /\ pdf.pc = "open"
  /\ pdf' = IF pdf.fitz THEN [pdf EXCEPT !.pc = "read"]
            ELSE [pdf EXCEPT !.pc = "raised", !.error = "ImportError"]
  /\ UNCHANGED <<configVars, fileVars, docs, startup, san, docx, lookup, service>>

\* for page in doc: parts.append(text); total_chars += len(text.strip())
PdfReadPage ==
  /\ pdf.pc = "read" /\ pdf.i < Len(pdf.pages)
  /\ pdf' = [pdf EXCEPT !.i = pdf.i + 1,
                        !.parts = Append(pdf.parts, TextLayer(pdf.i + 1)),
                        !.total_chars = pdf.total_chars + pdf.pages[pdf.i + 1].stripped]
  /\ UNCHANGED <<configVars, fileVars, docs, startup, san, docx, lookup, service>>

\* after the loop: the threshold test, then OCR or the joined text layer
PdfDecide ==
  /\ pdf.pc = "read" /\ pdf.i = Len(pdf.pages)
  /\ pdf' = IF IsScanned(pdf.total_chars, Len(pdf.pages), pdf.threshold)
              THEN [pdf EXCEPT !.pc = "ocr", !.i = 0]
              ELSE [pdf EXCEPT !.pc = "returned", !.result = Join("\n", pdf.parts),
                               !.closed = TRUE]
  /\ UNCHANGED <<configVars, fileVars, docs, startup, san, docx, lookup, service>>

\* _extract_scanned_pdf, one page: the recognizer returns text or raises
PdfOcrPage ==
  /\ pdf.pc = "ocr" /\ pdf.i < Len(pdf.pages)
  /\ \E ok \in BOOLEAN :
        pdf' = IF ok
                 THEN [pdf EXCEPT !.i = pdf.i + 1,
                                  !.ocr_calls = Append(pdf.ocr_calls, pdf.i + 1),
                                  !.ocr_parts = Append(pdf.ocr_parts, Recognized(pdf.i + 1))]
                 ELSE [pdf EXCEPT !.pc = "raised", !.error = "TesseractError",
                                  !.ocr_calls = Append(pdf.ocr_calls, pdf.i + 1),
                                  !.closed = TRUE]
  /\ UNCHANGED <<configVars, fileVars, docs, startup, san, docx, lookup, service>>

\* return "\n\n".join(ocr_parts); finally: doc.close()
PdfOcrReturn ==
  /\ pdf.pc = "ocr" /\ pdf.i = Len(pdf.pages)
  /\ pdf' = [pdf EXCEPT !.pc = "returned", !.result = Join("\n\n", pdf.ocr_parts),
                        !.closed = TRUE]
  /\ UNCHANGED <<configVars, fileVars, docs, startup, san, docx, lookup, service>>

PdfNext == PdfOpen \/ PdfReadPage \/ PdfDecide \/ PdfOcrPage \/ PdfOcrReturn
SpecPdf == PdfInit /\ [][PdfNext]_vars

\* stripped characters of all pages
RECURSIVE SumStripped(_)
SumStripped(pages) ==
  IF pages = << >> THEN 0 ELSE Head(pages).stripped + SumStripped(Tail(pages))

\* the mean stripped character count per page is below the threshold
MeanBelowThreshold ==
  SumStripped(pdf.pages) < pdf.threshold * Len(pdf.pages)

\* C19: for a PDF with pages, the OCR decision follows the mean stripped
\* character count over all pages: below the threshold every page goes
\* through the recognizer and the recognized texts, concatenated, are
\* returned; at or above it the recognizer is never invoked and the text
\* layer is returned.
C19_OcrDecidedByMeanDensity ==
  (pdf.pc # "idle" /\ Len(pdf.pages) > 0) =>
     /\ ~MeanBelowThreshold => pdf.ocr_calls = << >>
     /\ (pdf.pc = "returned") =>
          IF MeanBelowThreshold
            THEN /\ pdf.ocr_calls = [i \in 1..Len(pdf.pages) |-> i]
                 /\ pdf.result.parts = [i \in 1..Len(pdf.pages) |-> Recognized(i)]
            ELSE pdf.result.parts = [i \in 1..Len(pdf.pages) |-> TextLayer(i)]

\* a document with a dense first page and a mean below the threshold had
\* every page recognized
C19_Witness ==
  /\ pdf.pc = "returned"
  /\ pdf.pages = <<[stripped |-> 3], [stripped |-> 0], [stripped |-> 0]>>
  /\ pdf.threshold = 2
  /\ pdf.ocr_calls = <<1, 2, 3>>
  /\ pdf.result = Join("\n\n", <<Recognized(1), Recognized(2), Recognized(3)>>)

\* ----------------------------------------------------- _extract_from_docx
MaxBlocks == 3
MaxRows == 2

\* the blocks of a document body: a paragraph (its text blank or not) or a
\* table with some rows
Paragraph(blank) == [kind |-> "p", blank |-> blank, rows |-> 0]
Table(rows) == [kind |-> "t", blank |-> FALSE, rows |-> rows]
Blocks == {Paragraph(b) : b \in BOOLEAN} \cup {Table(n) : n \in 1..MaxRows}

RECURSIVE Bodies(_)
Bodies(n) ==
  IF n = 0 THEN {<< >>}
  ELSE LET shorter == Bodies(n - 1)
       IN shorter \cup {Append(b, blk) : b \in shorter, blk \in Blocks}

\* p.text of the paragraph that is block i, and the " | " join of the
\* stripped cells of row r of the table that is block i
ParagraphText(i) == [block |-> i, row |-> 0]
RowText(i, r) == [block |-> i, row |-> r]

\* [p.text for p in doc.paragraphs if p.text.strip()], from block i on
RECURSIVE ParagraphParts(_, _)
ParagraphParts(body, i) ==
  IF i > Len(body) THEN << >>
  ELSE (IF body[i].kind = "p" /\ ~body[i].blank THEN <<ParagraphText(i)>> ELSE << >>)
       \o ParagraphParts(body, i + 1)

\* doc.tables: the positions of the tables, from block i on
RECURSIVE TablesOf(_, _)
TablesOf(body, i) ==
  IF i > Len(body) THEN << >>
  ELSE (IF body[i].kind = "t" THEN <<i>> ELSE << >>) \o TablesOf(body, i + 1)

NewDocx(body) ==
  [pc |-> "start", body |-> body, parts |-> << >>, tables |-> << >>, t |-> 1, r |-> 1,
   result |-> Join("", << >>)]

DocxInit ==
  /\ max_tokens = 0 /\ token_overlap = 0
  /\ pc = "idle" /\ text = NoText /\ total_tokens = 0 /\ tokens = << >>
  /\ start_idx = 0 /\ chunks = << >> /\ idx = 0 /\ accumulated = None
  /\ call = NoCall /\ num_calls = 0 /\ cause = "none" /\ last = NoResult
  /\ result = NoResult
  /\ docs = NoDocs /\ startup = Idle /\ san = Idle /\ pdf = Idle /\ lookup = Idle /\ service = Idle
  /\ \E body \in Bodies(MaxBlocks) : docx = NewDocx(body)

\* parts = [p.text for p in doc.paragraphs if p.text.strip()]
DocxParagraphs ==
  /\ docx.pc = "start"
  /\ docx' = [docx EXCEPT !.pc = "tables",
                          !.parts = ParagraphParts(docx.body, 1),
                          !.tables = TablesOf(docx.body, 1)]
  /\ UNCHANGED <<configVars, fileVars, docs, startup, san, pdf, lookup, service>>

\* for table in doc.tables: for row in table.rows: parts.append(...)
DocxTableRow ==
  /\ docx.pc = "tables" /\ docx.t <= Len(docx.tables)
  /\ LET i == docx.tables[docx.t]
         last_row == docx.r = docx.body[i].rows
     IN docx' = [docx EXCEPT !.parts = Append(docx.parts, RowText(i, docx.r)),
                             !.t = IF last_row THEN docx.t + 1 ELSE docx.t,
                             !.r = IF last_row THEN 1 ELSE docx.r + 1]
  /\ UNCHANGED <<configVars, fileVars, docs, startup, san, pdf, lookup, service>>

\* return "\n".join(parts)
DocxReturn ==
  /\ docx.pc = "tables" /\ docx.t > Len(docx.tables)
  /\ docx' = [docx EXCEPT !.pc = "returned", !.result = Join("\n", docx.parts)]
  /\ UNCHANGED <<configVars, fileVars, docs, startup, san, pdf, lookup, service>>

DocxNext == DocxParagraphs \/ DocxTableRow \/ DocxReturn
SpecDocx == DocxInit /\ [][DocxNext]_vars

\* the non-empty paragraphs and the table rows in the order of the body
RECURSIVE InDocumentOrder(_, _)
InDocumentOrder(body, i) ==
  IF i > Len(body) THEN << >>
  ELSE (IF body[i].kind = "p"
          THEN (IF body[i].blank THEN << >> ELSE <<ParagraphText(i)>>)
          ELSE [r \in 1..body[i].rows |-> RowText(i, r)])
       \o InDocumentOrder(body, i + 1)

\* C20: the text extracted from a DOCX lists the non-empty paragraphs and
\* the table rows in the order in which they occur in the document.
C20_DocxKeepsDocumentOrder ==
  (docx.pc = "returned") => (docx.result.parts = InDocumentOrder(docx.body, 1))

\* ======================================================================
\* Further properties of process_file and chunk_text (specification Spec)

\* C21: the model call for chunk 1 receives no previous data, and the call
\* for every chunk i > 1 receives as previous data exactly the accumulated
\* data produced by chunk i-1, whatever value that is.
C21_CallReceivesPreviousData ==
  (pc = "awaiting") =>
     /\ (call.idx = 1) => (call.prompt_previous = None)
     /\ (call.idx > 1) => (last.status = "success" /\ call.prompt_previous = last.data)

\* C22: model calls are issued in chunk order and one at a time, each chunk
\* is called at most once, and no call is issued once a chunk has failed.
C22_CallsInOrderOnceNoRetry ==
  [][ /\ (call' # call \/ num_calls' # num_calls) =>
           /\ pc = "process" /\ pc' = "awaiting"
           /\ num_calls' = num_calls + 1
           /\ call'.idx = num_calls + 1
           /\ (num_calls >= 1) => (last.status = "success")
      /\ (last.status = "failed") => (num_calls' = num_calls /\ call' = call)
    ]_vars

\* the second of three or more chunks failed after exactly two calls
C22_Witness ==
  /\ pc = "done" /\ Len(chunks) >= 3 /\ last.status = "failed"
  /\ call.idx = 2 /\ num_calls = 2

\* no string of the dict has a NUL or a removed control character
CleanDict(x) ==
  x.none \/ \A i \in DOMAIN x.val : \A j \in DOMAIN x.val[i] : Kept(x.val[i][j])

Shared(k) ==
  {chunks[k - 1].toks[j] : j \in DOMAIN chunks[k - 1].toks}
    \cap {chunks[k].toks[j] : j \in DOMAIN chunks[k].toks}

C30_StartupCompletes ==
  (startup.pc # "idle" /\ startup.model.kind = "Model" /\ startup.verdict = "pass") =>
     startup.pc # "failed"

\* ======================================================================
\* build_model_from_schema: the search for the schema file (POSIX paths)
MaxPathLen == 3

\* characters of a path: "/", "\" and a letter
Slash == 47
Backslash == 92
PathChars == {Slash, Backslash, 97}

RECURSIVE PathsUpTo(_)
PathsUpTo(n) ==
  IF n = 1 THEN {<<c>> : c \in PathChars}
  ELSE LET shorter == PathsUpTo(n - 1)
       IN shorter \cup {Append(q, c) : q \in shorter, c \in PathChars}

\* schema_path.replace('\\', '/')
normalized_path(schema_path) ==
  [i \in DOMAIN schema_path |-> IF schema_path[i] = Backslash THEN Slash ELSE schema_path[i]]

\* Path.is_absolute() on POSIX
is_absolute(path) == path[1] = Slash

\* a place in the file system: an absolute path, or a path below the
\* working directory or below the directory above utils/
Place(dir, path) == [dir |-> dir, path |-> path]
AsGiven(path) == Place("", path)
cwd_path(path) == Place("cwd", path)
relative_path(path) == Place("root", path)

\* the places a path can name
PlacesOf(path) ==
  IF is_absolute(path) THEN {AsGiven(path)} ELSE {cwd_path(path), relative_path(path)}

NoPlace == Place("none", << >>)

\* mutation: the fallback directory is tried first
final_path_rootFirst(path, files) ==
  IF is_absolute(path) THEN AsGiven(path)
  ELSE IF relative_path(path) \in files THEN relative_path(path)
  ELSE IF cwd_path(path) \in files THEN cwd_path(path)
  ELSE NoPlace

\* lines 48-69: the place that is opened, NoPlace when FileNotFoundError is
\* raised before open
final_path(path, files) ==
  IF is_absolute(path) THEN AsGiven(path)
  ELSE IF cwd_path(path) \in files THEN cwd_path(path)
  ELSE IF relative_path(path) \in files THEN relative_path(path)
  ELSE NoPlace

NewLookup(schema_path, files) ==
  [pc |-> "start", schema_path |-> schema_path, files |-> files,
   final |-> NoPlace, error |-> ""]

LookupInit ==
  /\ max_tokens = 0 /\ token_overlap = 0
  /\ pc = "idle" /\ text = NoText /\ total_tokens = 0 /\ tokens = << >>
  /\ start_idx = 0 /\ chunks = << >> /\ idx = 0 /\ accumulated = None
  /\ call = NoCall /\ num_calls = 0 /\ cause = "none" /\ last = NoResult
  /\ result = NoResult
  /\ docs = NoDocs /\ startup = Idle /\ san = Idle /\ pdf = Idle /\ docx = Idle
  /\ service = Idle
  /\ \E schema_path \in PathsUpTo(MaxPathLen) :
       \E files \in SUBSET (PlacesOf(schema_path) \cup PlacesOf(normalized_path(schema_path))) :
          lookup = NewLookup(schema_path, files)

\* the path is normalized and resolved
ResolvePath ==
  /\ lookup.pc = "start"
  /\ LET final == final_path(normalized_path(lookup.schema_path), lookup.files)
     IN lookup' = IF final = NoPlace
                    THEN [lookup EXCEPT !.pc = "failed", !.error = "FileNotFoundError"]
                    ELSE [lookup EXCEPT !.pc = "resolved", !.final = final]
  /\ UNCHANGED <<configVars, fileVars, docs, startup, san, pdf, docx, service>>

\* with open(final_path, "r", encoding="utf-8") as f
OpenSchema ==
  /\ lookup.pc = "resolved"
  /\ lookup' = IF lookup.final \in lookup.files
                 THEN [lookup EXCEPT !.pc = "opened"]
                 ELSE [lookup EXCEPT !.pc = "failed", !.error = "FileNotFoundError"]
  /\ UNCHANGED <<configVars, fileVars, docs, startup, san, pdf, docx, service>>

LookupNext == ResolvePath \/ OpenSchema
SpecLookup == LookupInit /\ [][LookupNext]_vars

LookupEnded == lookup.pc = "opened" \/ lookup.pc = "failed"

\* the lookup of path p ended as the claim says: an absolute path as given,
\* a relative one below the working directory, else below the fallback
\* directory, and not found only when it is in neither
FoundInOrder(p) ==
  IF is_absolute(p)
    THEN IF AsGiven(p) \in lookup.files
           THEN lookup.pc = "opened" /\ lookup.final = AsGiven(p)
           ELSE lookup.pc = "failed"
  ELSE IF cwd_path(p) \in lookup.files
    THEN lookup.pc = "opened" /\ lookup.final = cwd_path(p)
  ELSE IF relative_path(p) \in lookup.files
    THEN lookup.pc = "opened" /\ lookup.final = relative_path(p)
  ELSE lookup.pc = "failed" /\ lookup.error = "FileNotFoundError"

\* C26 as stated: the configured path itself is looked up, as given if
\* absolute, else in the working directory, else in the fallback directory.
C26_SchemaLookupOrder ==
  LookupEnded => FoundInOrder(lookup.schema_path)

\* C26 amended: the path that is looked up is the configured path with every
\* backslash replaced by a slash; that path is used as given if absolute,
\* else found in the working directory, else in the fallback directory, and
\* the lookup fails as not found only when it is in neither.
C26_NormalizedLookupOrder ==
  LookupEnded => FoundInOrder(normalized_path(lookup.schema_path))

\* a relative path with a backslash was found in the working directory
\* although the fallback directory has it too
C26_Witness ==
  /\ lookup.pc = "opened"
  /\ lookup.schema_path = <<97, Backslash, 97>>
  /\ cwd_path(<<97, Slash, 97>>) \in lookup.files
  /\ relative_path(<<97, Slash, 97>>) \in lookup.files
  /\ lookup.final = cwd_path(<<97, Slash, 97>>)

\* ======================================================================
\* The API (main.py): POST /extract, the tracker table, the background
\* tasks.  Handlers and tasks are coroutines of one event loop: they
\* interleave at their awaits (the database round trips, process_file).
MaxUploads == 2
Uploads == 1..MaxUploads

\* what an upload carries: no content, or one of two files, each standing
\* for an (application id, checksum, original filename)
EmptyContent == "empty"
FileKeys == {"f", "g"}

STATUS_SUCCESS == "success"
STATUS_FAILED == "failed"
STATUS_INPROGRESS == "inprogress"
STATUS_INITIATED == "initiated"

\* SQL NULL / Python None, and the data process_file extracts for upload u
NullData == [of |-> 0, partial |-> FALSE]
DataOf(u, partial) == [of |-> u, partial |-> partial]

\* a row of extraction_tracker; its request_id is its position in the table
Row(key, status, data) == [key |-> key, status |-> status, extracted_data |-> data]

\* the columns check_query selects, besides metadata
CheckColumns == {"request_id", "status"}

\* SELECT request_id, status, metadata ... WHERE application_id = $1 AND
\* checksum = $2 AND original_filename = $3 ORDER BY created_at DESC LIMIT 1
check_query(tracker, key) ==
  LET hits == {i \in DOMAIN tracker : tracker[i].key = key}
  IN IF hits = {} THEN << >>
     ELSE LET i == CHOOSE j \in hits : \A k \in hits : k <= j
              row == [request_id |-> i, status |-> tracker[i].status,
                      extracted_data |-> tracker[i].extracted_data]
          IN <<[c \in CheckColumns |-> row[c]]>>

\* rec.get(name): None for a key the dict does not have
DictGet(rec, name) == IF name \in DOMAIN rec THEN rec[name] ELSE NullData

\* the results process_file can return for upload u
ProcessResults(u) ==
  { [status |-> STATUS_SUCCESS, data |-> DataOf(u, FALSE)],
    [status |-> STATUS_FAILED, data |-> DataOf(u, TRUE)],
    [status |-> STATUS_FAILED, data |-> NullData] }

NoResponse == [code |-> 0, request_id |-> 0, status |-> "", data |-> NullData]
Response(code, rid, status, data) ==
  [code |-> code, request_id |-> rid, status |-> status, data |-> data]

\* temp_id, the request id used when there is no database
TempId(u) == 0 - u

NewUpload(key) ==
  [pc |-> "new", key |-> key, request_id |-> 0, response |-> NoResponse,
   file |-> "none", task |-> "none", updates |-> << >>, outcome |-> "none",
   result |-> [status |-> "none", data |-> NullData]]

\* the globals lifespan sets (db_client, extractor), the table and uploads
NewService(db, ext, keys) ==
  [db_client |-> db, extractor |-> ext, tracker |-> << >>,
   up |-> [u \in Uploads |-> NewUpload(keys[u])]]

\* update_tracker(request_id, status, extracted_data=data, ...) for the
\* task of upload u: nothing without a database; else the UPDATE, which
\* sets extracted_data only if data is not None
update_tracker(svc, u, status, data) ==
  IF ~svc.db_client THEN svc
  ELSE LET rid == svc.up[u].request_id
           upd == [status |-> status, data |-> data]
           logged == [svc EXCEPT !.up[u].updates = Append(@, upd)]
       IN IF rid \in DOMAIN svc.tracker
            THEN [logged EXCEPT !.tracker[rid].status = status,
                                !.tracker[rid].extracted_data =
                                   IF data = NullData THEN @ ELSE data]
            ELSE logged

ServiceInit ==
  /\ max_tokens = 0 /\ token_overlap = 0
  /\ pc = "idle" /\ text = NoText /\ total_tokens = 0 /\ tokens = << >>
  /\ start_idx = 0 /\ chunks = << >> /\ idx = 0 /\ accumulated = None
  /\ call = NoCall /\ num_calls = 0 /\ cause = "none" /\ last = NoResult
  /\ result = NoResult
  /\ docs = NoDocs /\ startup = Idle /\ san = Idle /\ pdf = Idle /\ docx = Idle
  /\ lookup = Idle
  /\ \E db \in BOOLEAN, ext \in BOOLEAN, keys \in [Uploads -> FileKeys \cup {EmptyContent}] :
        service = NewService(db, ext, keys)

\* mutation: a failed extraction leaves the request in progress
TerminalStatusOf_successOnly(res) ==
  IF res.status = STATUS_SUCCESS THEN STATUS_SUCCESS ELSE STATUS_INPROGRESS

\* if result["status"] == "success": STATUS_SUCCESS, else: STATUS_FAILED
TerminalStatusOf(res) ==
  IF res.status = STATUS_SUCCESS THEN STATUS_SUCCESS ELSE STATUS_FAILED

ServiceFrame == UNCHANGED <<configVars, fileVars, docs, startup, san, pdf, docx, lookup>>

\* extract_data from file.read() to the await that follows the duplicate
\* check: the early answers, or the temporary file written
UploadCheck(u) ==
  /\ service.up[u].pc = "new"
  /\ LET key == service.up[u].key
         records == IF service.db_client THEN check_query(service.tracker, key) ELSE << >>
         answered(r) == [service EXCEPT !.up[u].pc = "responded", !.up[u].response = r]
     IN IF key = EmptyContent
          THEN \* HTTPException(400) is caught by `except Exception` and answered as 500
               service' = answered(Response(500, 0, "", NullData))
        ELSE IF records # << >> /\ records[1].status = STATUS_SUCCESS
          THEN service' = answered(Response(200, records[1].request_id, records[1].status,
                                            DictGet(records[1], "extracted_data")))
        ELSE IF records # << >> /\ records[1].status = STATUS_INPROGRESS
          THEN service' = answered(Response(202, records[1].request_id, records[1].status,
                                            NullData))
        ELSE service' = [service EXCEPT !.up[u].pc = "checked", !.up[u].file = "exists"]
  /\ ServiceFrame

\* extract_data from the INSERT to the response: the row, add_task, 202
UploadInsert(u) ==
  /\ service.up[u].pc = "checked"
  /\ LET rid == IF service.db_client THEN Len(service.tracker) + 1 ELSE TempId(u)
         tracker == IF service.db_client
                      THEN Append(service.tracker,
                                  Row(service.up[u].key, STATUS_INITIATED, NullData))
                      ELSE service.tracker
     IN service' = [service EXCEPT !.tracker = tracker,
                                   !.up[u].request_id = rid,
                                   !.up[u].task = "queued",
                                   !.up[u].pc = "responded",
                                   !.up[u].response =
                                      Response(202, rid, STATUS_INITIATED, NullData)]
  /\ ServiceFrame

\* process_background up to its await of process_file, or to its return
\* when there is no extractor
TaskStart(u) ==
  /\ service.up[u].task = "queued"
  /\ IF ~service.extractor
       THEN service' = [update_tracker(service, u, STATUS_FAILED, NullData)
                          EXCEPT !.up[u].task = "returned",
                                 !.up[u].outcome = "not_initialized"]
       ELSE service' = [update_tracker(service, u, STATUS_INPROGRESS, NullData)
                          EXCEPT !.up[u].task = "processing"]
  /\ ServiceFrame

\* process_file returns; the terminal update, or the `except` branch when
\* json.dumps of the data raises inside update_tracker; then `finally`
TaskFinish(u) ==
  /\ service.up[u].task = "processing"
  /\ \E res \in ProcessResults(u), dump_raises \in BOOLEAN :
       /\ dump_raises => (service.db_client /\ res.data # NullData)
       /\ LET after == IF dump_raises
                         THEN update_tracker(service, u, STATUS_FAILED, NullData)
                         ELSE update_tracker(service, u, TerminalStatusOf(res), res.data)
          IN service' = [after EXCEPT !.up[u].task = "returned",
                                      !.up[u].file = "removed",
                                      !.up[u].result = res,
                                      !.up[u].outcome =
                                         IF dump_raises THEN "exception" ELSE res.status]
  /\ ServiceFrame

ServiceNext ==
  \E u \in Uploads :
     \/ UploadCheck(u)
     \/ UploadInsert(u)
     \/ TaskStart(u)
     \/ TaskFinish(u)

SpecService == ServiceInit /\ [][ServiceNext]_vars

\* ------------------------------------------------- properties of the API
VALID_STATUSES == {STATUS_SUCCESS, STATUS_FAILED, STATUS_INPROGRESS, STATUS_INITIATED}

Update(status, data) == [status |-> status, data |-> data]

\* the task of upload t sent 'inprogress' and then one terminal update:
\* success with the data, or failed with whatever data there is
InprogressThenTerminal(t) ==
  /\ Len(t.updates) = 2
  /\ t.updates[1] = Update(STATUS_INPROGRESS, NullData)
  /\ t.updates[2] =
       IF t.outcome = "exception" THEN Update(STATUS_FAILED, NullData)
       ELSE Update(t.result.status, t.result.data)
  /\ t.updates[2].status \in {STATUS_SUCCESS, STATUS_FAILED}

C27_DuplicateSuccessReturnsData ==
  \A u \in Uploads :
     LET t == service.up[u]
     IN (t.response.code = 200) =>
           /\ t.response.request_id \in DOMAIN service.tracker
           /\ service.tracker[t.response.request_id].key = t.key
           /\ service.tracker[t.response.request_id].status = STATUS_SUCCESS
           /\ t.response.data = service.tracker[t.response.request_id].extracted_data
           /\ t.task = "none" /\ t.file = "none" /\ t.request_id = 0

\* the background task of upload u was added and has not returned
TaskActive(u) == service.up[u].task \in {"queued", "processing"}

\* C28: no two background tasks are active at a time for the same file
\* (stated for a service with a database and an extractor).
C28_OneActiveTaskPerFile ==
  (service.db_client /\ service.extractor) =>
     \A u, v \in Uploads :
        (u # v /\ TaskActive(u) /\ TaskActive(v)) => (service.up[u].key # service.up[v].key)

\* C29: once process_background has returned, the temporary file of the
\* request is gone.
C29_TempFileRemoved ==
  \A u \in Uploads :
     (service.up[u].task = "returned") => (service.up[u].file # "exists")

====
